---- MODULE Spec2Model ----
(***************************************************************************)
(* A model of gtfs_to_png.py: the pipeline of main() (read the GTFS        *)
(* tables, filter by route and direction, enrich with route colours,       *)
(* compute the bounding box, render, write overlay-metadata.json) and the  *)
(* functions it is made of.                                                *)
(*                                                                         *)
(* Representation.                                                         *)
(*   - Python's None and pandas' missing value are the strings None and    *)
(*     NaN; a table that is None is the record NoTable (field none).       *)
(*   - Coordinates are integers in units of 0.00001 degree, so 0.001       *)
(*     degree is 100.  A padding fraction is an integer number of          *)
(*     hundredths (0.02 is 2).  All coordinates of the inputs are          *)
(*     multiples of 100, which keeps span * fraction exact.                *)
(*   - A DataFrame is [columns, rows]: the set of its column names and the *)
(*     sequence of its rows (records).                                     *)
(***************************************************************************)
EXTENDS Integers, Sequences, FiniteSets, TLC

VARIABLES
    pc,           \* position of main(), or of the function under call
    call,         \* arguments of the function under call
    ret,          \* its return value (or the exception it raised)
    ret2,         \* the return value of a second application
    args,         \* argparse namespace of main()
    fs,           \* the input files named on the command line
    shapes_gdf,   \* main(): local shapes_gdf
    trips_df,     \* main(): local trips_df
    routes_df,    \* main(): local routes_df
    stops_gdf,    \* main(): local stops_gdf
    route_filter, \* main(): local route_filter
    bbox,         \* main(): local bbox (and bbox_used)
    drawn,        \* what the renderer drew on the axes
    written,      \* the output files written so far
    err           \* the exception that ended the run ("" when none)

vars == <<pc, call, ret, ret2, args, fs, shapes_gdf, trips_df, routes_df,
          stops_gdf, route_filter, bbox, drawn, written, err>>

mainVars == <<args, fs, shapes_gdf, trips_df, routes_df, stops_gdf,
              route_filter, bbox, drawn, written, err>>

None == "None"
NaN == "NaN"

-----------------------------------------------------------------------------
(* Bounds of the model. *)

\* rows of a shapes.txt handed to read_shapes
MaxRows == 3
\* largest shape_pt_sequence value
MaxSeq == 2

-----------------------------------------------------------------------------
(* Value domains. *)

\* shape ids, in the order sort_values / groupby put them
ShapeIdOrder == <<"s1", "s2">>
ShapeIds == {ShapeIdOrder[i] : i \in 1..Len(ShapeIdOrder)}
RouteIds == {"r1", "r2"}

NoTable == [none |-> TRUE, columns |-> {}, rows |-> <<>>]
Table(cols, rws) == [none |-> FALSE, columns |-> cols, rows |-> rws]

\* all sequences over S of length 0..n
SeqsUpTo(S, n) == UNION {[1..k -> S] : k \in 0..n}

Range(s) == {s[i] : i \in 1..Len(s)}

-----------------------------------------------------------------------------
(* read_shapes *)

Required == {"shape_id", "shape_pt_lat", "shape_pt_lon", "shape_pt_sequence"}

Rank(sid) == CHOOSE i \in 1..Len(ShapeIdOrder) : ShapeIdOrder[i] = sid

\* the order of df.sort_values(["shape_id", "shape_pt_sequence"])
RowLE(a, b) ==
    \/ Rank(a.shape_id) < Rank(b.shape_id)
    \/ a.shape_id = b.shape_id /\ a.shape_pt_sequence <= b.shape_pt_sequence

RECURSIVE InsertSorted(_, _)
InsertSorted(s, r) ==
    IF s = <<>> THEN <<r>>
    ELSE IF RowLE(Head(s), r) THEN <<Head(s)>> \o InsertSorted(Tail(s), r)
    ELSE <<r>> \o s

\* a stable sort of the rows by (shape_id, shape_pt_sequence)
RECURSIVE sort_values(_)
sort_values(rows) ==
    IF rows = <<>> THEN <<>>
    ELSE InsertSorted(sort_values(SubSeq(rows, 1, Len(rows) - 1)), rows[Len(rows)])

\* the rows of one groupby("shape_id") group
Group(df, sid) == SelectSeq(df, LAMBDA r : r.shape_id = sid)

\* list(zip(group["shape_pt_lon"], group["shape_pt_lat"]))
Coords(group) ==
    [k \in 1..Len(group) |-> <<group[k].shape_pt_lon, group[k].shape_pt_lat>>]

\* the loop over the groups, from the i-th shape id on
RECURSIVE BuildLines(_, _)
BuildLines(df, i) ==
    IF i > Len(ShapeIdOrder) THEN <<>>
    ELSE LET coords == Coords(Group(df, ShapeIdOrder[i]))
         IN  (IF Len(coords) < 2 THEN <<>>
              ELSE <<[shape_id |-> ShapeIdOrder[i], geometry |-> coords]>>)
             \o BuildLines(df, i + 1)

\* gpd.GeoDataFrame(lines, crs="EPSG:4326").  A list of no records makes a
\* frame of no columns, so there is no geometry column to give the CRS to:
\* geopandas raises ValueError there (strict), and its older releases only
\* warned and returned the frame of no columns.
GeoDataFrame(lines, strict) ==
    IF lines = <<>>
    THEN IF strict THEN [raised |-> "ValueError", gdf |-> NoTable]
         ELSE [raised |-> "", gdf |-> Table({}, <<>>)]
    ELSE [raised |-> "", gdf |-> Table({"shape_id", "geometry"}, lines)]

\* read_shapes without the test of the required columns
read_shapes_unchecked(file, strict) ==
    GeoDataFrame(BuildLines(sort_values(file.rows), 1), strict)

read_shapes(file, strict) ==
    IF ~(Required \subseteq file.columns)
    THEN [raised |-> "SystemExit", gdf |-> NoTable]
    ELSE GeoDataFrame(BuildLines(sort_values(file.rows), 1), strict)

-----------------------------------------------------------------------------
(* Specification SpecRead: read_shapes applied to every small shapes.txt. *)

\* the rows a shapes.txt is made of: two distinct points, so that the order
\* of a shape's points shows in its geometry
ShapeRows ==
    [shape_id : ShapeIds, shape_pt_lon : {0}, shape_pt_lat : {0},
     shape_pt_sequence : 1..MaxSeq]
    \cup [shape_id : ShapeIds, shape_pt_lon : {100}, shape_pt_lat : {200},
          shape_pt_sequence : 1..MaxSeq]

ShapesColumnSets == {Required, Required \cup {"shape_dist_traveled"},
                     Required \ {"shape_pt_sequence"}, Required \ {"shape_id"}}

IdleMain ==
    /\ args = None /\ fs = None /\ shapes_gdf = NoTable /\ trips_df = NoTable
    /\ routes_df = NoTable /\ stops_gdf = NoTable /\ route_filter = None
    /\ bbox = None /\ drawn = <<>> /\ written = {} /\ err = ""

InitRead ==
    /\ pc = "call"
    /\ call \in [shapes_path : {Table(c, r) : c \in ShapesColumnSets,
                                              r \in SeqsUpTo(ShapeRows, MaxRows)}]
    /\ ret = None /\ ret2 = None
    /\ IdleMain

CallReadShapes ==
    /\ pc = "call"
    /\ \E strict \in BOOLEAN : ret' = read_shapes(call.shapes_path, strict)
    /\ pc' = "returned"
    /\ UNCHANGED <<call, ret2, mainVars>>

NextRead == CallReadShapes

SpecRead == InitRead /\ [][NextRead]_vars

\* the shape ids that have a row in the file, and those with fewer than 2 rows
GroupIds(file) == {r.shape_id : r \in Range(file.rows)}
SmallGroupIds(file) ==
    {sid \in GroupIds(file) : Len(Group(file.rows, sid)) < 2}

\* the geometry is the group's points in an order of ascending sequence number
AscendingBySequence(file, line) ==
    LET idx == {i \in 1..Len(file.rows) : file.rows[i].shape_id = line.shape_id}
        n == Len(line.geometry)
    IN  /\ n = Cardinality(idx)
        /\ \E f \in [1..n -> idx] :
              /\ \A i, j \in 1..n : i # j => f[i] # f[j]
              /\ \A i \in 1..n :
                    line.geometry[i] = <<file.rows[f[i]].shape_pt_lon,
                                         file.rows[f[i]].shape_pt_lat>>
              /\ \A i \in 1..(n - 1) :
                    file.rows[f[i]].shape_pt_sequence
                        <= file.rows[f[i + 1]].shape_pt_sequence

\* C2: on a shapes.txt with the four required columns read_shapes returns
\* only shapes of at least 2 points, each in ascending shape_pt_sequence
\* order, one shape fewer per shape_id group of fewer than 2 points, and such
\* a group never makes it raise, also when every group is dropped.
C2_ShortGroupsDroppedNeverRaise ==
    (pc = "returned" /\ Required \subseteq call.shapes_path.columns) =>
        LET file == call.shapes_path
            lines == ret.gdf.rows
        IN  /\ SmallGroupIds(file) # {} => ret.raised = ""
            /\ ret.raised = "" =>
                  /\ \A i \in 1..Len(lines) :
                        /\ Len(lines[i].geometry) >= 2
                        /\ AscendingBySequence(file, lines[i])
                  /\ {lines[i].shape_id : i \in 1..Len(lines)}
                        = GroupIds(file) \ SmallGroupIds(file)
                  /\ Len(lines)
                        = Cardinality(GroupIds(file)) - Cardinality(SmallGroupIds(file))

-----------------------------------------------------------------------------
(* compute_bbox *)

\* 0.001 degree, the span a degenerate axis is given
MinSpan == 100

Min(S) == CHOOSE x \in S : \A y \in S : x <= y
Max(S) == CHOOSE x \in S : \A y \in S : x >= y

\* the coordinates (axis 1: lon, axis 2: lat) of every point of the frame
AxisValues(gdf, axis) ==
    UNION {{p[axis] : p \in Range(gdf.rows[i].geometry)} : i \in 1..Len(gdf.rows)}

\* gdf.total_bounds: (minx, miny, maxx, maxy), four NaN for an empty frame
total_bounds(gdf) ==
    IF gdf.rows = <<>> THEN [nan |-> TRUE, v |-> <<0, 0, 0, 0>>]
    ELSE [nan |-> FALSE,
          v |-> <<Min(AxisValues(gdf, 1)), Min(AxisValues(gdf, 2)),
                  Max(AxisValues(gdf, 1)), Max(AxisValues(gdf, 2))>>]

\* span * fraction, the fraction in hundredths
Times(span, fraction) == (span * fraction) \div 100

compute_bbox(gdf, padding_fraction) ==
    LET tb == total_bounds(gdf)
        minx == tb.v[1]
        miny == tb.v[2]
        maxx == tb.v[3]
        maxy == tb.v[4]
        dx == IF maxx - minx = 0 THEN MinSpan ELSE maxx - minx
        dy == IF maxy - miny = 0 THEN MinSpan ELSE maxy - miny
        padx == Times(dx, padding_fraction)
        pady == Times(dy, padding_fraction)
    IN  IF tb.nan THEN tb   \* nan == 0 is false, and nan - nan * f is nan
        ELSE [nan |-> FALSE,
              v |-> <<minx - padx, miny - pady, maxx + padx, maxy + pady>>]

-----------------------------------------------------------------------------
(* Specification SpecBBox: compute_bbox applied to every small frame. *)

\* shapes of a frame handed to compute_bbox
MaxBBoxShapes == 2
\* points of one of its shapes
MaxPts == 2

BBoxPoints == {<<0, 0>>, <<100, 0>>, <<0, 100>>}
BBoxLines == UNION {[1..k -> BBoxPoints] : k \in 2..MaxPts}
BBoxFrames ==
    {Table({"shape_id", "geometry"},
           [i \in 1..Len(g) |-> [shape_id |-> "s", geometry |-> g[i]]]) :
        g \in SeqsUpTo(BBoxLines, MaxBBoxShapes)}

\* --pad is type=float: any fraction, here in hundredths (2 is the default)
Pads == {-100, -50, 0, 2, 50}

InitBBox ==
    /\ pc = "call"
    /\ call \in [gdf : BBoxFrames, padding_fraction : Pads]
    /\ ret = None /\ ret2 = None
    /\ IdleMain

CallComputeBBox ==
    /\ pc = "call"
    /\ ret' = compute_bbox(call.gdf, call.padding_fraction)
    /\ pc' = "returned"
    /\ UNCHANGED <<call, ret2, mainVars>>

NextBBox == CallComputeBBox

SpecBBox == InitBBox /\ [][NextBBox]_vars

\* the extent of the frame's points on an axis, before any padding
RawSpan(gdf, axis) == Max(AxisValues(gdf, axis)) - Min(AxisValues(gdf, axis))

\* C1: for a non-empty frame whose raw extent is zero on an axis and a
\* padding fraction >= 0, the returned box spans at least 0.001 degree on
\* that axis (it is never of zero width or height).
C1_DegenerateAxisSpansMinimum ==
    (pc = "returned" /\ call.gdf.rows # <<>> /\ call.padding_fraction >= 0) =>
        /\ RawSpan(call.gdf, 1) = 0 => ret.v[3] - ret.v[1] >= MinSpan
        /\ RawSpan(call.gdf, 2) = 0 => ret.v[4] - ret.v[2] >= MinSpan

\* C6: for a non-empty frame and any padding fraction, the returned box has
\* max_lon >= min_lon and max_lat >= min_lat.
C6_MaxAtLeastMin ==
    (pc = "returned" /\ call.gdf.rows # <<>>) =>
        /\ ~ret.nan
        /\ ret.v[3] >= ret.v[1]
        /\ ret.v[4] >= ret.v[2]

-----------------------------------------------------------------------------
(* filter_shapes_by_route_and_direction *)

\* a Python value that is None, a str or a list of str: its kind, and in v
\* the strings it holds (the one string of a str, the elements of a list)
PyNone == [kind |-> "None", v |-> <<>>]
PyStr(x) == [kind |-> "str", v |-> <<x>>]
PyList(x) == [kind |-> "list", v |-> x]

\* if isinstance(route_ids, str): route_ids = [route_ids]
AsList(route_ids) ==
    IF route_ids.kind = "str" THEN <<route_ids.v[1]>> ELSE route_ids.v

\* --direction is an int of {0, 1} and direction_id an integer column; both
\* are written as the digit's text so that they share a domain with None
\* and NaN (only == is ever applied to them)
Directions == {"0", "1"}

\* the mask trips_df["route_id"].isin(route_ids)
IsIn(x, list) == x \in Range(list)

\* the filter losing the first of the shapes it selects
filter_skipping_first(shapes_gdf_, trips_df_, route_ids, direction) ==
    IF trips_df_.none \/ route_ids.kind = "None"
    THEN [raised |-> "", gdf |-> shapes_gdf_]
    ELSE LET ids == AsList(route_ids)
             byRoute == SelectSeq(trips_df_.rows, LAMBDA t : IsIn(t.route_id, ids))
             byDir == IF direction # None /\ "direction_id" \in trips_df_.columns
                      THEN SelectSeq(byRoute, LAMBDA t : t.direction_id = direction)
                      ELSE byRoute
             keep == {byDir[i].shape_id : i \in 1..Len(byDir)}
             sel == SelectSeq(shapes_gdf_.rows, LAMBDA r : r.shape_id \in keep)
         IN  [raised |-> "",
              gdf |-> [shapes_gdf_ EXCEPT
                         !.rows = IF sel = <<>> THEN <<>> ELSE Tail(sel)]]

\* the filter with the direction test left out
filter_ignoring_direction(shapes_gdf_, trips_df_, route_ids, direction) ==
    IF trips_df_.none \/ route_ids.kind = "None"
    THEN [raised |-> "", gdf |-> shapes_gdf_]
    ELSE LET ids == AsList(route_ids)
             byRoute == SelectSeq(trips_df_.rows, LAMBDA t : IsIn(t.route_id, ids))
             keep == {byRoute[i].shape_id : i \in 1..Len(byRoute)}
         IN  [raised |-> "",
              gdf |-> [shapes_gdf_ EXCEPT
                         !.rows = SelectSeq(@, LAMBDA r : r.shape_id \in keep)]]

filter_shapes_by_route_and_direction(shapes_gdf_, trips_df_, route_ids, direction) ==
    IF trips_df_.none \/ route_ids.kind = "None"
    THEN [raised |-> "", gdf |-> shapes_gdf_]
    ELSE IF "route_id" \notin trips_df_.columns      \* trips_df["route_id"]
    THEN [raised |-> "KeyError", gdf |-> NoTable]
    ELSE IF "shape_id" \notin trips_df_.columns      \* trips_filtered["shape_id"]
    THEN [raised |-> "KeyError", gdf |-> NoTable]
    ELSE IF "shape_id" \notin shapes_gdf_.columns    \* shapes_gdf["shape_id"]
    THEN [raised |-> "KeyError", gdf |-> NoTable]
    ELSE LET ids == AsList(route_ids)
             byRoute == SelectSeq(trips_df_.rows, LAMBDA t : IsIn(t.route_id, ids))
             byDir == IF direction # None /\ "direction_id" \in trips_df_.columns
                      THEN SelectSeq(byRoute, LAMBDA t : t.direction_id = direction)
                      ELSE byRoute
             shape_ids == {byDir[i].shape_id : i \in 1..Len(byDir)}
         IN  [raised |-> "",
              gdf |-> [shapes_gdf_ EXCEPT
                         !.rows = SelectSeq(@, LAMBDA r : r.shape_id \in shape_ids)]]

-----------------------------------------------------------------------------
(* Specification SpecFilter: the filter applied to every small input, and *)
(* applied again to its own result.                                       *)

\* rows of a trips.txt
MaxTrips == 2

\* a frame of shapes, one per id of ids, each the same two-point line
ShapesFrame(ids) ==
    Table({"shape_id", "geometry"},
          [i \in 1..Len(ids) |->
              [shape_id |-> ids[i], geometry |-> <<<<0, 0>>, <<100, 200>>>>]])

FrameIds == {<<>>, <<"s1">>, <<"s2">>, <<"s1", "s2">>}

TripColumns == {"trip_id", "route_id", "shape_id", "direction_id"}
TripRows ==
    [shape_id : ShapeIds, route_id : RouteIds, direction_id : Directions]
    \cup [shape_id : {"s1"}, route_id : {"r1"}, direction_id : {NaN}]

\* a column the table lacks is never read; its cells are left in the rows
FilterTrips ==
    {NoTable}
    \cup {Table(c, r) : c \in {TripColumns, TripColumns \ {"direction_id"}},
                        r \in SeqsUpTo(TripRows, MaxTrips)}
    \cup {Table(TripColumns \ {c}, <<>>) : c \in {"route_id", "shape_id"}}

FilterRouteIds ==
    {PyNone, PyStr("r1"), PyList(<<>>), PyList(<<"r1">>), PyList(<<"r2">>),
     PyList(<<"r1", "r2">>)}

InitFilter ==
    /\ pc = "call"
    /\ call \in [shapes_gdf : {ShapesFrame(ids) : ids \in FrameIds},
                  trips_df : FilterTrips,
                  route_ids : FilterRouteIds,
                  direction : Directions \cup {None}]
    /\ ret = None /\ ret2 = None
    /\ IdleMain

CallFilter ==
    /\ pc = "call"
    /\ ret' = filter_shapes_by_route_and_direction(
                  call.shapes_gdf, call.trips_df, call.route_ids, call.direction)
    /\ pc' = "returned"
    /\ UNCHANGED <<call, ret2, mainVars>>

\* the filter applied to what it returned, with the same criteria
CallFilterAgain ==
    /\ pc = "returned"
    /\ ret.raised = ""
    /\ ret2' = filter_shapes_by_route_and_direction(
                   ret.gdf, call.trips_df, call.route_ids, call.direction)
    /\ pc' = "returned twice"
    /\ UNCHANGED <<call, ret, mainVars>>

NextFilter == CallFilter \/ CallFilterAgain

SpecFilter == InitFilter /\ [][NextFilter]_vars

\* the route ids asked for, as a set
RouteIdSet(route_ids) == {route_ids.v[i] : i \in DOMAIN route_ids.v}

\* a trip that qualifies a shape: it names a wanted route and, when a
\* direction is given and the table has the column, that direction
Qualifies(t, c) ==
    /\ t.route_id \in RouteIdSet(c.route_ids)
    /\ (c.direction # None /\ "direction_id" \in c.trips_df.columns)
           => t.direction_id = c.direction

FilterApplies(c) ==
    /\ ~c.trips_df.none
    /\ {"route_id", "shape_id"} \subseteq c.trips_df.columns
    /\ c.route_ids.kind # "None"
    /\ RouteIdSet(c.route_ids) # {}

\* C4: with a trips table and a non-empty set of route ids the filter keeps a
\* shape exactly when some trip references it, names a route of the set and,
\* when a direction is given and trips has a direction_id column, has that
\* direction; without the column the direction is ignored without error and
\* the result is that of the filter by route alone.
C4_KeepsExactlyQualifiedShapes ==
    (pc = "returned" /\ FilterApplies(call)) =>
        /\ ret.raised = ""
        /\ ret.gdf.columns = call.shapes_gdf.columns
        /\ ret.gdf.rows =
              SelectSeq(call.shapes_gdf.rows,
                        LAMBDA r : \E t \in Range(call.trips_df.rows) :
                                      t.shape_id = r.shape_id /\ Qualifies(t, call))
        /\ "direction_id" \notin call.trips_df.columns =>
              ret = filter_shapes_by_route_and_direction(
                       call.shapes_gdf, call.trips_df, call.route_ids, None)

\* C4's case: a direction is given, the table has the column, and the
\* direction decides: of two shapes on a wanted route one is kept, one not
C4_Witness ==
    /\ pc = "returned" /\ FilterApplies(call)
    /\ call.direction # None /\ "direction_id" \in call.trips_df.columns
    /\ Len(ret.gdf.rows) = 1 /\ Len(call.shapes_gdf.rows) = 2
    /\ \A r \in Range(call.shapes_gdf.rows) :
          \E t \in Range(call.trips_df.rows) :
             t.shape_id = r.shape_id /\ t.route_id \in RouteIdSet(call.route_ids)

\* C9: the filter applied to its own result, with the same trips, route ids
\* and direction, returns that result again.
C9_FilterIdempotent ==
    pc = "returned twice" => (ret2.raised = "" /\ ret2.gdf = ret.gdf)

\* C9's case: the first application removed a shape and kept another
C9_Witness ==
    /\ pc = "returned twice"
    /\ Len(ret.gdf.rows) = 1 /\ Len(call.shapes_gdf.rows) = 2

-----------------------------------------------------------------------------
(* enrich_colors_from_routes *)

\* df[cols].drop_duplicates(): the first of the rows equal on cols is kept
RECURSIVE drop_duplicates(_)
drop_duplicates(rows) ==
    IF rows = <<>> THEN <<>>
    ELSE LET init == drop_duplicates(SubSeq(rows, 1, Len(rows) - 1))
             last == rows[Len(rows)]
         IN  IF last \in Range(init) THEN init ELSE Append(init, last)

\* the rows of right that one row of left joins, in right's order; a left
\* row that joins none is kept with a missing route_color (how="left")
JoinOne(l, right) ==
    LET m == SelectSeq(right, LAMBDA r : r.route_id = l.route_id)
    IN  IF m = <<>>
        THEN <<[shape_id |-> l.shape_id, route_id |-> l.route_id, route_color |-> NaN]>>
        ELSE [k \in 1..Len(m) |->
                [shape_id |-> l.shape_id, route_id |-> l.route_id,
                 route_color |-> m[k].route_color]]

\* trip_route.merge(route_color, on="route_id", how="left"), in left's order
RECURSIVE merge(_, _)
merge(left, right) ==
    IF left = <<>> THEN <<>>
    ELSE JoinOne(Head(left), right) \o merge(Tail(left), right)

\* dict(rows): a later pair of a key replaces the earlier one
RECURSIVE dict(_)
dict(pairs) ==
    IF pairs = <<>> THEN <<>>
    ELSE LET d == dict(SubSeq(pairs, 1, Len(pairs) - 1))
             kv == pairs[Len(pairs)]
         IN  [k \in DOMAIN d \cup {kv[1]} |-> IF k = kv[1] THEN kv[2] ELSE d[k]]

\* dict(rows) where the first pair of a key stays
RECURSIVE dict_first_wins(_)
dict_first_wins(pairs) ==
    IF pairs = <<>> THEN <<>>
    ELSE LET d == dict_first_wins(Tail(pairs))
             kv == Head(pairs)
         IN  [k \in DOMAIN d \cup {kv[1]} |-> IF k = kv[1] THEN kv[2] ELSE d[k]]

\* merged[["shape_id", "route_color"]].dropna().values
ColorPairs(merged) ==
    LET kept == SelectSeq(merged, LAMBDA r : r.shape_id # NaN /\ r.route_color # NaN)
    IN  [k \in 1..Len(kept) |-> <<kept[k].shape_id, kept[k].route_color>>]

\* shapes_gdf["color"] = shapes_gdf["shape_id"].map(color_map), on a copy
WithColor(gdf, color_map) ==
    Table(gdf.columns \cup {"color"},
          [i \in 1..Len(gdf.rows) |->
              [shape_id |-> gdf.rows[i].shape_id,
               geometry |-> gdf.rows[i].geometry,
               color |-> IF gdf.rows[i].shape_id \in DOMAIN color_map
                         THEN color_map[gdf.rows[i].shape_id] ELSE NaN]])

\* the pairs of trips_df[["shape_id", "route_id"]] and of
\* routes_df[["route_id", "route_color"]]
TripRoute(rows) ==
    [k \in 1..Len(rows) |-> [shape_id |-> rows[k].shape_id, route_id |-> rows[k].route_id]]
RouteColor(rows) ==
    [k \in 1..Len(rows) |-> [route_id |-> rows[k].route_id, route_color |-> rows[k].route_color]]

\* enrich_colors_from_routes with the test of the route_color column lost:
\* the colour column is added, all missing
enrich_without_color_test(shapes_gdf_, trips_df_, routes_df_) ==
    IF trips_df_.none \/ routes_df_.none
    THEN [raised |-> "", gdf |-> shapes_gdf_]
    ELSE IF "shape_id" \notin trips_df_.columns \/ "route_id" \notin trips_df_.columns
    THEN [raised |-> "", gdf |-> shapes_gdf_]
    ELSE IF "route_id" \notin routes_df_.columns
    THEN [raised |-> "", gdf |-> shapes_gdf_]
    ELSE [raised |-> "", gdf |-> WithColor(shapes_gdf_, <<>>)]

\* enrich_colors_from_routes with a colour map the first pair wins
enrich_first_wins(shapes_gdf_, trips_df_, routes_df_) ==
    [raised |-> "",
     gdf |-> WithColor(shapes_gdf_,
                dict_first_wins(ColorPairs(
                    merge(drop_duplicates(TripRoute(trips_df_.rows)),
                          drop_duplicates(RouteColor(routes_df_.rows))))))]

enrich_colors_from_routes(shapes_gdf_, trips_df_, routes_df_) ==
    IF trips_df_.none \/ routes_df_.none
    THEN [raised |-> "", gdf |-> shapes_gdf_]
    ELSE IF "shape_id" \notin trips_df_.columns \/ "route_id" \notin trips_df_.columns
    THEN [raised |-> "", gdf |-> shapes_gdf_]
    ELSE IF "route_id" \notin routes_df_.columns
    THEN [raised |-> "", gdf |-> shapes_gdf_]
    ELSE IF "route_color" \notin routes_df_.columns
    THEN [raised |-> "", gdf |-> shapes_gdf_]
    ELSE IF "shape_id" \notin shapes_gdf_.columns     \* shapes_gdf["shape_id"]
    THEN [raised |-> "KeyError", gdf |-> NoTable]
    ELSE LET trip_route == drop_duplicates(TripRoute(trips_df_.rows))
             route_color == drop_duplicates(RouteColor(routes_df_.rows))
             merged == merge(trip_route, route_color)
             color_map == dict(ColorPairs(merged))
         IN  [raised |-> "", gdf |-> WithColor(shapes_gdf_, color_map)]

-----------------------------------------------------------------------------
(* Specification SpecEnrich: the enrichment applied to every small input. *)

\* rows of a routes.txt
MaxRoutes == 2

Colors == {"FF0000", "0000FF"}

\* trips, with the direction left at 0: the enrichment never reads it
EnrichTripRows == [shape_id : ShapeIds, route_id : RouteIds, direction_id : {"0"}]
EnrichTrips ==
    {NoTable}
    \cup {Table(TripColumns, r) : r \in SeqsUpTo(EnrichTripRows, MaxTrips)}
    \cup {Table(TripColumns \ {c}, r) :
            c \in {"route_id", "shape_id"}, r \in SeqsUpTo(EnrichTripRows, 1)}

RouteColumns == {"route_id", "route_short_name", "route_color"}
RouteRows == [route_id : RouteIds, route_color : Colors \cup {NaN}]
RouteTables ==
    {NoTable}
    \cup {Table(RouteColumns, r) : r \in SeqsUpTo(RouteRows, MaxRoutes)}
    \cup {Table(RouteColumns \ {c}, r) :
            c \in {"route_id", "route_color"}, r \in SeqsUpTo(RouteRows, 1)}

InitEnrich ==
    /\ pc = "call"
    /\ call \in [shapes_gdf : {ShapesFrame(ids) : ids \in FrameIds \ {<<"s2">>}},
                  trips_df : EnrichTrips,
                  routes_df : RouteTables]
    /\ ret = None /\ ret2 = None
    /\ IdleMain

CallEnrich ==
    /\ pc = "call"
    /\ ret' = enrich_colors_from_routes(call.shapes_gdf, call.trips_df, call.routes_df)
    /\ pc' = "returned"
    /\ UNCHANGED <<call, ret2, mainVars>>

NextEnrich == CallEnrich

SpecEnrich == InitEnrich /\ [][NextEnrich]_vars

\* the join columns are all there
CanJoin(c) ==
    /\ ~c.trips_df.none /\ ~c.routes_df.none
    /\ {"shape_id", "route_id"} \subseteq c.trips_df.columns
    /\ {"route_id", "route_color"} \subseteq c.routes_df.columns

\* C8: the enrichment returns its input unchanged, no colour column added,
\* whenever trips or routes is absent, or trips lacks shape_id or route_id,
\* or routes lacks route_id or route_color.
C8_EnrichNoOpWithoutJoin ==
    (pc = "returned" /\ ~CanJoin(call)) =>
        (ret.raised = "" /\ ret.gdf = call.shapes_gdf)

\* C8's case: both tables are there, with rows and shapes to colour, and
\* only the route_color column is missing
C8_Witness ==
    /\ pc = "returned"
    /\ ~call.trips_df.none /\ ~call.routes_df.none
    /\ "route_color" \notin call.routes_df.columns
    /\ "route_id" \in call.routes_df.columns
    /\ call.routes_df.rows # <<>> /\ call.shapes_gdf.rows # <<>>
    /\ ret.gdf = call.shapes_gdf

\* the colours the deduplicated route->color pairs give a route, in their
\* order, missing ones left out (one colour when route_id is unique)
ColorsOfRoute(c, rid) ==
    LET rws == SelectSeq(drop_duplicates(RouteColor(c.routes_df.rows)),
                         LAMBDA r : r.route_id = rid /\ r.route_color # NaN)
    IN  [k \in 1..Len(rws) |-> rws[k].route_color]

\* the colour C10 gives shape sid: that of the last of its trip->route pairs,
\* in the order of the deduplicated pairs, whose route has a colour
ResolvedColor(c, sid) ==
    LET pairs == drop_duplicates(TripRoute(c.trips_df.rows))
        mine == {i \in 1..Len(pairs) :
                    /\ pairs[i].shape_id = sid
                    /\ ColorsOfRoute(c, pairs[i].route_id) # <<>>}
        cs == ColorsOfRoute(c, pairs[Max(mine)].route_id)
    IN  IF mine = {} THEN NaN ELSE cs[Len(cs)]

\* C10: with all join columns the enrichment leaves the shapes and their
\* geometry as they are and gives each shape the route_color of the last of
\* its deduplicated trip->route pairs whose route has a non-missing colour,
\* and no colour when there is no such pair.  (Should routes.txt repeat a
\* route_id, the route's colour is that of the last of its deduplicated
\* route->color pairs.)
C10_LastColoredPairWins ==
    (pc = "returned" /\ CanJoin(call)) =>
        /\ ret.raised = ""
        /\ Len(ret.gdf.rows) = Len(call.shapes_gdf.rows)
        /\ \A i \in 1..Len(ret.gdf.rows) :
              /\ ret.gdf.rows[i].shape_id = call.shapes_gdf.rows[i].shape_id
              /\ ret.gdf.rows[i].geometry = call.shapes_gdf.rows[i].geometry
              /\ ret.gdf.rows[i].color = ResolvedColor(call, ret.gdf.rows[i].shape_id)

\* C10's case: a shape on two routes of different colours gets the later one
C10_Witness ==
    /\ pc = "returned" /\ CanJoin(call)
    /\ \E i \in 1..Len(ret.gdf.rows) :
          LET sid == ret.gdf.rows[i].shape_id
              pairs == drop_duplicates(TripRoute(call.trips_df.rows))
          IN  /\ Len(pairs) = 2
              /\ pairs[1].shape_id = sid /\ pairs[2].shape_id = sid
              /\ ColorsOfRoute(call, pairs[1].route_id) # <<>>
              /\ ColorsOfRoute(call, pairs[2].route_id) # <<>>
              /\ ColorsOfRoute(call, pairs[1].route_id)
                    # ColorsOfRoute(call, pairs[2].route_id)
              /\ ret.gdf.rows[i].color = ColorsOfRoute(call, pairs[2].route_id)[1]

-----------------------------------------------------------------------------
(* optionally_read_stops, plot_to_png and the metadata of main() *)

\* optionally_read_stops: None without a path or without the lat/lon columns
optionally_read_stops(file) ==
    IF file.none THEN NoTable
    ELSE IF ~({"stop_lat", "stop_lon"} \subseteq file.columns) THEN NoTable
    ELSE Table(file.columns \cup {"geometry"}, file.rows)

\* int(x / y) for integers: the quotient cut towards zero
Trunc(x, y) ==
    LET q == (IF x < 0 THEN -x ELSE x) \div (IF y < 0 THEN -y ELSE y)
    IN  IF (x < 0) = (y < 0) THEN q ELSE -q

\* base_px at the default --scale 1.0
BasePx == 1200

\* the style of a plot() call that names no colour
DefaultStyle == "default"

\* px_h of plot_to_png: int(base_px * aspect)
PxH(b) ==
    LET width_deg == b.v[3] - b.v[1]
        height_deg == b.v[4] - b.v[2]
    IN  IF width_deg # 0 THEN Trunc(BasePx * height_deg, width_deg) ELSE BasePx

\* the plot() calls of plot_to_png, in order.  With a color column each
\* row is plotted on its own; c is computed and not handed to plot().
Draws(shapes_gdf_, stops_gdf_) ==
    (IF "color" \in shapes_gdf_.columns
     THEN [i \in 1..Len(shapes_gdf_.rows) |->
             LET row == shapes_gdf_.rows[i]
                 c == IF row.color # NaN THEN row.color ELSE "#000000"
             IN  [layer |-> "shapes", ids |-> <<row.shape_id>>,
                  color |-> DefaultStyle, zorder |-> 2]]
     ELSE <<[layer |-> "shapes",
             ids |-> [i \in 1..Len(shapes_gdf_.rows) |-> shapes_gdf_.rows[i].shape_id],
             color |-> DefaultStyle, zorder |-> 2]>>)
    \o (IF ~stops_gdf_.none
        THEN <<[layer |-> "stops", ids |-> <<>>, color |-> DefaultStyle, zorder |-> 3]>>
        ELSE <<>>)

\* plot_to_png called with a bbox.  int() of a NaN raises ValueError; a figure
\* of no height is left to matplotlib, which saves it or raises (renders).
plot_to_png(shapes_gdf_, stops_gdf_, bbox_, renders) ==
    IF bbox_.nan
    THEN [raised |-> "ValueError", image |-> <<>>, bbox |-> bbox_]
    ELSE IF PxH(bbox_) <= 0 /\ ~renders
    THEN [raised |-> "ValueError", image |-> <<>>, bbox |-> bbox_]
    ELSE [raised |-> "",
          image |-> <<[xlim |-> <<bbox_.v[1], bbox_.v[3]>>,
                       ylim |-> <<bbox_.v[2], bbox_.v[4]>>,
                       drawn |-> Draws(shapes_gdf_, stops_gdf_)]>>,
          bbox |-> bbox_]

\* the metadata with the corners of leaflet_bounds as [lon, lat]
metadata_lon_first(bbox_used, out, route_filter_) ==
    [bounds |-> [min_lon |-> bbox_used[1], min_lat |-> bbox_used[2],
                 max_lon |-> bbox_used[3], max_lat |-> bbox_used[4],
                 leaflet_bounds |-> <<<<bbox_used[1], bbox_used[2]>>,
                                      <<bbox_used[3], bbox_used[4]>>>>,
                 center |-> <<(bbox_used[2] + bbox_used[4]) \div 2,
                              (bbox_used[1] + bbox_used[3]) \div 2>>],
     output_image |-> <<"resolved", out>>,
     filtered_routes |-> route_filter_]

\* the metadata dict of main(); the sums are even, so / 2 is exact
metadata(bbox_used, out, route_filter_) ==
    LET leaflet_bounds == <<<<bbox_used[2], bbox_used[1]>>,
                            <<bbox_used[4], bbox_used[3]>>>>
        center_lat == (bbox_used[2] + bbox_used[4]) \div 2
        center_lon == (bbox_used[1] + bbox_used[3]) \div 2
    IN  [bounds |-> [min_lon |-> bbox_used[1], min_lat |-> bbox_used[2],
                     max_lon |-> bbox_used[3], max_lat |-> bbox_used[4],
                     leaflet_bounds |-> leaflet_bounds,
                     center |-> <<center_lat, center_lon>>],
         output_image |-> <<"resolved", out>>,
         filtered_routes |-> route_filter_]

\* str.strip() on the fields a --route_ids value is split into
Strip(x) == IF x = " r2" THEN "r2" ELSE IF x = " " THEN "" ELSE x

\* main(), lines 252-256.  args.route_ids is the value split at its commas;
\* no fields stands for None, the one field "" for the empty string.
RouteFilter(a) ==
    IF a.route_id # None /\ a.route_id # ""
    THEN PyList(<<a.route_id>>)
    ELSE IF a.route_ids # <<>> /\ a.route_ids # <<"">>
    THEN LET kept == SelectSeq(a.route_ids, LAMBDA r : Strip(r) # "")
         IN  PyList([k \in 1..Len(kept) |-> Strip(kept[k])])
    ELSE PyNone

\* bool(route_filter)
Truthy(x) == x.kind # "None" /\ x.v # <<>>

-----------------------------------------------------------------------------
(* Specification Spec: main() run on a command line and its files. *)

ShapeRow(sid, lon, lat, seq) ==
    [shape_id |-> sid, shape_pt_lon |-> lon, shape_pt_lat |-> lat,
     shape_pt_sequence |-> seq]

\* two lines (the second horizontal); a horizontal line and a lone point; a
\* lone point; two lines in a file without the sequence column
MainShapesFiles ==
    {Table(Required, <<ShapeRow("s1", 100, 200, 2), ShapeRow("s2", 100, 200, 1),
                       ShapeRow("s1", 0, 0, 1), ShapeRow("s2", 300, 200, 2)>>),
     Table(Required, <<ShapeRow("s1", 0, 0, 1), ShapeRow("s2", 100, 200, 1),
                       ShapeRow("s1", 100, 0, 2)>>),
     Table(Required, <<ShapeRow("s1", 0, 0, 1)>>),
     Table(Required \ {"shape_pt_sequence"},
           <<ShapeRow("s1", 0, 0, 1), ShapeRow("s1", 100, 200, 1)>>)}

TripRow(sid, rid, dir) == [shape_id |-> sid, route_id |-> rid, direction_id |-> dir]

MainTripsFiles ==
    {NoTable,
     Table(TripColumns, <<TripRow("s1", "r1", "0"), TripRow("s2", "r2", "1")>>),
     Table(TripColumns, <<TripRow("s1", "r1", "0"), TripRow("s1", "r2", "1"),
                          TripRow("s2", "r1", "1")>>),
     Table(TripColumns \ {"direction_id"},
           <<TripRow("s1", "r1", "0"), TripRow("s2", "r1", "0")>>)}

RouteRow(rid, col) == [route_id |-> rid, route_color |-> col]

MainRoutesFiles ==
    {NoTable,
     Table(RouteColumns, <<RouteRow("r1", "FF0000"), RouteRow("r2", NaN)>>),
     Table(RouteColumns, <<RouteRow("r1", "FF0000"), RouteRow("r2", "0000FF")>>),
     Table(RouteColumns \ {"route_color"}, <<RouteRow("r1", NaN)>>)}

MainStopsFiles ==
    {NoTable,
     Table({"stop_id", "stop_lat", "stop_lon"}, <<[stop_id |-> "a"]>>),
     Table({"stop_id", "stop_name"}, <<[stop_id |-> "a"]>>)}

MainRouteIdsArgs == {<<>>, <<"">>, <<"r1", " r2">>, <<" ", "">>}

Init ==
    /\ pc = "read"
    /\ args \in [direction : Directions \cup {None},
                  pad : {-100, 0, 2},
                  route_id : {None, "", "r1"},
                  route_ids : MainRouteIdsArgs,
                  out : {"overlay.png"}]
    /\ fs \in [shapes : MainShapesFiles, trips : MainTripsFiles,
                routes : MainRoutesFiles, stops : MainStopsFiles]
    /\ shapes_gdf = NoTable /\ trips_df = NoTable /\ routes_df = NoTable
    /\ stops_gdf = NoTable
    /\ route_filter = PyNone
    /\ bbox = [nan |-> TRUE, v |-> <<0, 0, 0, 0>>]
    /\ drawn = <<>>
    /\ written = [image |-> <<>>, metadata |-> <<>>]
    /\ err = ""
    /\ call = None /\ ret = None /\ ret2 = None

Exit(e) == pc' = "exit" /\ err' = e

\* lines 238-249: the four reads
ReadInputs ==
    /\ pc = "read"
    /\ \E strict \in BOOLEAN :
          LET r == read_shapes(fs.shapes, strict)
          IN  IF r.raised # ""
              THEN /\ Exit(r.raised)
                   /\ UNCHANGED <<shapes_gdf, trips_df, routes_df, stops_gdf>>
              ELSE /\ shapes_gdf' = r.gdf
                   /\ trips_df' = fs.trips
                   /\ routes_df' = fs.routes
                   /\ stops_gdf' = optionally_read_stops(fs.stops)
                   /\ pc' = "filter"
                   /\ err' = ""
    /\ UNCHANGED <<call, ret, ret2, args, fs, route_filter, bbox, drawn, written>>

\* lines 251-265: the route filter
FilterByRoute ==
    /\ pc = "filter"
    /\ route_filter' = RouteFilter(args)
    /\ IF Truthy(RouteFilter(args))
       THEN IF trips_df.none
            THEN Exit("SystemExit") /\ UNCHANGED shapes_gdf
            ELSE LET r == filter_shapes_by_route_and_direction(
                             shapes_gdf, trips_df, RouteFilter(args), args.direction)
                 IN  IF r.raised # ""
                     THEN Exit(r.raised) /\ UNCHANGED shapes_gdf
                     ELSE shapes_gdf' = r.gdf /\ pc' = "color" /\ err' = ""
       ELSE pc' = "color" /\ UNCHANGED <<shapes_gdf, err>>
    /\ UNCHANGED <<call, ret, ret2, args, fs, trips_df, routes_df, stops_gdf,
                   bbox, drawn, written>>

\* lines 267-269: the colours
Coloring ==
    /\ pc = "color"
    /\ IF ~routes_df.none /\ ~trips_df.none
       THEN LET r == enrich_colors_from_routes(shapes_gdf, trips_df, routes_df)
            IN  IF r.raised # ""
                THEN Exit(r.raised) /\ UNCHANGED shapes_gdf
                ELSE shapes_gdf' = r.gdf /\ pc' = "bbox" /\ err' = ""
       ELSE pc' = "bbox" /\ UNCHANGED <<shapes_gdf, err>>
    /\ UNCHANGED <<call, ret, ret2, args, fs, trips_df, routes_df, stops_gdf,
                   route_filter, bbox, drawn, written>>

\* line 271; total_bounds of a frame of no geometry column raises
ComputeBBox ==
    /\ pc = "bbox"
    /\ IF "geometry" \notin shapes_gdf.columns
       THEN Exit("AttributeError") /\ UNCHANGED bbox
       ELSE bbox' = compute_bbox(shapes_gdf, args.pad) /\ pc' = "plot" /\ err' = ""
    /\ UNCHANGED <<call, ret, ret2, args, fs, shapes_gdf, trips_df, routes_df,
                   stops_gdf, route_filter, drawn, written>>

\* lines 272-281: the image
PlotToPng ==
    /\ pc = "plot"
    /\ \E renders \in BOOLEAN :
          LET r == plot_to_png(shapes_gdf, stops_gdf, bbox, renders)
          IN  IF r.raised # ""
              THEN Exit(r.raised) /\ UNCHANGED <<bbox, drawn, written>>
              ELSE /\ bbox' = r.bbox
                   /\ drawn' = r.image[1].drawn
                   /\ written' = [written EXCEPT !.image = r.image]
                   /\ pc' = "metadata"
                   /\ err' = ""
    /\ UNCHANGED <<call, ret, ret2, args, fs, shapes_gdf, trips_df, routes_df,
                   stops_gdf, route_filter>>

\* lines 283-302: overlay-metadata.json
WriteMetadata ==
    /\ pc = "metadata"
    /\ written' = [written EXCEPT
                      !.metadata = <<metadata(bbox.v, args.out, route_filter)>>]
    /\ pc' = "done"
    /\ UNCHANGED <<call, ret, ret2, args, fs, shapes_gdf, trips_df, routes_df,
                   stops_gdf, route_filter, bbox, drawn, err>>

Next ==
    \/ ReadInputs
    \/ FilterByRoute
    \/ Coloring
    \/ ComputeBBox
    \/ PlotToPng
    \/ WriteMetadata

Spec == Init /\ [][Next]_vars

\* a route filter is requested: --route_id or --route_ids names a route id
FilterRequested(a) ==
    \/ a.route_id \notin {None, ""}
    \/ \E i \in 1..Len(a.route_ids) : Strip(a.route_ids[i]) # ""

NothingWritten == written.image = <<>> /\ written.metadata = <<>>

FatalInput ==
    \/ ~(Required \subseteq fs.shapes.columns)
    \/ FilterRequested(args) /\ fs.trips.none

\* C3: when shapes.txt lacks a required column, or a route filter is
\* requested and no trips file is given, the run ends in a fatal error, and
\* neither the image nor overlay-metadata.json has been written.
C3_FatalInputWritesNothing ==
    FatalInput =>
        /\ NothingWritten
        /\ pc \in {"read", "filter", "exit"}
        /\ pc = "exit" => err # ""
        /\ (pc = "exit" /\ ~(Required \subseteq fs.shapes.columns))
              => err = "SystemExit"

\* C3's case: the shapes were read, a filter is requested without trips,
\* and the run has ended on the usage error
C3_Witness ==
    /\ pc = "exit" /\ err = "SystemExit"
    /\ Required \subseteq fs.shapes.columns
    /\ FilterRequested(args) /\ fs.trips.none
    /\ shapes_gdf.rows # <<>>

\* the plot() calls that drew shapes
ShapeDraws == SelectSeq(drawn, LAMBDA d : d.layer = "shapes")

\* C5: with a color column each shape is drawn on its own in its own
\* colour, black (#000000) when its colour is missing; without the column
\* all shapes are drawn together in the one default style.
C5_ShapesDrawnInOwnColor ==
    pc \in {"metadata", "done"} =>
        IF "color" \in shapes_gdf.columns
        THEN /\ Len(ShapeDraws) = Len(shapes_gdf.rows)
             /\ \A i \in 1..Len(ShapeDraws) :
                   /\ ShapeDraws[i].ids = <<shapes_gdf.rows[i].shape_id>>
                   /\ ShapeDraws[i].color =
                         (IF shapes_gdf.rows[i].color # NaN
                          THEN shapes_gdf.rows[i].color ELSE "#000000")
        ELSE /\ Len(ShapeDraws) = 1
             /\ ShapeDraws[1].color = DefaultStyle
             /\ ShapeDraws[1].ids =
                   [i \in 1..Len(shapes_gdf.rows) |-> shapes_gdf.rows[i].shape_id]

\* the route filter list the command line gives, None without one
ExpectedRoutes(a) ==
    IF a.route_id \notin {None, ""} THEN PyList(<<a.route_id>>)
    ELSE IF a.route_ids \in {<<>>, <<"">>} THEN PyNone
    ELSE LET named == SelectSeq([i \in 1..Len(a.route_ids) |-> Strip(a.route_ids[i])],
                                LAMBDA r : r # "")
         IN  PyList(named)

\* C7: in a run that completes, overlay-metadata.json carries the box that
\* was the renderer's axis limits, compute_bbox of the filtered shapes with
\* the --pad fraction: its four scalars, leaflet_bounds =
\* [[min_lat, min_lon], [max_lat, max_lon]], center = the midpoints
\* [lat, lon], and filtered_routes = the route filter list, None without one.
C7_MetadataCarriesRenderedBox ==
    pc = "done" =>
        LET b == compute_bbox(shapes_gdf, args.pad).v
            m == written.metadata[1]
            img == written.image[1]
        IN  /\ img.xlim = <<b[1], b[3]>> /\ img.ylim = <<b[2], b[4]>>
            /\ m.bounds.min_lon = b[1] /\ m.bounds.min_lat = b[2]
            /\ m.bounds.max_lon = b[3] /\ m.bounds.max_lat = b[4]
            /\ m.bounds.leaflet_bounds = <<<<b[2], b[1]>>, <<b[4], b[3]>>>>
            /\ 2 * m.bounds.center[1] = b[2] + b[4]
            /\ 2 * m.bounds.center[2] = b[1] + b[3]
            /\ m.filtered_routes = ExpectedRoutes(args)

\* C7's case: a completed run with a route filter that removed a shape and
\* a box whose four scalars and midpoints all differ
C7_Witness ==
    /\ pc = "done"
    /\ written.metadata[1].filtered_routes.kind = "list"
    /\ Len(shapes_gdf.rows) = 1
    /\ LET b == written.metadata[1].bounds
       IN  /\ Cardinality({b.min_lon, b.min_lat, b.max_lon, b.max_lat}) = 4
           /\ b.center[1] # b.center[2]

====
